---- MODULE Spec2Model ----
(***************************************************************************)
(* Tick loops of the hello-nucleo-f103rb examples:                         *)
(*   examples/serial_echo.rs         (prog = "echo")                       *)
(*   examples/serial_led_control.rs  (prog = "control")                    *)
(*   examples/gpio_led.rs            (prog = "gpio")                       *)
(* Every loop body is cut into the blocks of statements the source lists   *)
(* one after the other; pc names the block that runs next.                 *)
(***************************************************************************)
EXTENDS Integers, Sequences, FiniteSets, TLC

(* ---------------------------------------------------------------------- *)
(* Constants of the programs                                               *)
(* ---------------------------------------------------------------------- *)

\* serial_echo.rs:62 has BUFFER_SIZE = 128. The loop treats every capacity
\* alike (index < BUFFER_SIZE is the only use), so the model keeps the
\* capacity small to enumerate every buffer content.
BUFFER_SIZE == 2

CASE_OFFSET == 32
BLINK_MS == 500
STROBE_MS == 50

Min(a, b) == IF a < b THEN a ELSE b
Max(a, b) == IF a < b THEN b ELSE a

DELAY_MS == Min(BLINK_MS, STROBE_MS)
DELAY_COUNTER_MAX == 2 * Max(BLINK_MS, STROBE_MS)

\* ASCII codes of the bytes the programs match on.
CR == 13
LF == 10
QuestionMark == 63
EqualsSign == 61
PlusSign == 43
MinusSign == 45
Tilde == 126
Digit0 == 48
Digit1 == 49
Digit2 == 50
Digit3 == 51
Digit4 == 52
Digit5 == 53
Digit9_AsEquals == EqualsSign
Digit9 == 57
LowerA == 97
UpperZ == 90

\* Outcomes of rx.read() that carry no byte, and the value of rx before the
\* first read.
WouldBlock == 0 - 1
OtherError == 0 - 2
NoRead == 0 - 3

\* send_string(tx, s) is one element of tx: the number that stands for s
\* (outside the byte range, so that it is never taken for a byte).
MsgEchoHelp == 300
MsgNormalCase == 301
MsgForceUpper == 302
MsgForceLower == 303
MsgInvertedCase == 304
MsgCtlHelp == 310
MsgAllDisabled == 311
MsgAllEnabled == 312
MsgStaticEnabled == 313
MsgStaticDisabled == 314
MsgBlinkEnabled == 315
MsgBlinkDisabled == 316
MsgStrobeEnabled == 317
MsgStrobeDisabled == 318
MsgControlledEnabled == 319
MsgControlledDisabled == 320
MsgInversionEnabled == 321
MsgInversionDisabled == 322
MsgControlledOn == 323
MsgControlledOff == 324

\* What rx.read() can return in a tick of each program.
EchoInputs ==
    {QuestionMark, EqualsSign, PlusSign, MinusSign, Tilde, CR,
     LowerA, UpperZ, WouldBlock, OtherError}
ControlInputs ==
    {QuestionMark, Digit0, Digit1, Digit2, Digit3, Digit4, Digit5, Digit9,
     CR, EqualsSign, PlusSign, MinusSign, Tilde, LowerA,
     WouldBlock, OtherError}

\* The locals of main (serial_echo.rs 230-238, serial_led_control.rs
\* 135-144, gpio_led.rs 79-83), the pins, and the history of the tick.
\* text_mode is one of "NormalCase", "ForceUpper", "ForceLower",
\* "InvertedCase" (enum TextMode, serial_echo.rs 77-83).
VARIABLES
    prog,                 \* which example runs
    pc,                   \* the block of the loop body that runs next
    rx,                   \* result of this tick's rx.read()
    button,               \* button.is_low() as last sampled (pressed)
    counter,
    \* serial_echo.rs; buffer[i + 1] is the source's buffer[i]
    buffer, index, button_down, text_mode, mode_change,
    do_flush_buffer, reset_buffer,
    led,                  \* level of the LED pin (PA5)
    \* serial_led_control.rs / gpio_led.rs
    static_enable, blink_enable, strobe_enable, controlled_enable,
    controlled_inversion, strobe_on, blink_on, controlled_on,
    \* level last given to each LED group by set_leds
    leds_static, leds_blink, leds_strobe, leds_controlled,
    \* what the tick has written to the serial port so far
    tx,
    \* history of the current tick
    steps,                \* blocks run so far in this tick
    mode0,                \* text_mode when the tick began
    edge,                 \* this tick's sample is pressed, the previous one was not
    fed,                  \* the ordinary bytes received since the last line
                          \* end, the first BUFFER_SIZE + 1 of them
    wpos,                 \* buffer position written by this tick's read, or -1
    blink_run,            \* ticks for which blink_on has kept its value
    pure,                 \* no mode-selecting byte has been received so far
    presses,              \* button edges so far, modulo 4, counted while pure
    conv                  \* one call of convert_case: arguments and results

echoVars ==
    <<buffer, index, button_down, text_mode, mode_change, do_flush_buffer,
      reset_buffer, led>>
enableVars ==
    <<static_enable, blink_enable, strobe_enable, controlled_enable,
      controlled_inversion>>
waveVars == <<strobe_on, blink_on, blink_run>>
ledsVars == <<leds_static, leds_blink, leds_strobe, leds_controlled>>
histVars == <<mode0, edge, fed, wpos>>
pressVars == <<pure, presses>>

vars ==
    <<prog, pc, rx, button, counter, echoVars, enableVars, waveVars,
      controlled_on, ledsVars, tx, steps, histVars, pressVars, conv>>

(* ---------------------------------------------------------------------- *)
(* serial_echo.rs: pure functions                                          *)
(* ---------------------------------------------------------------------- *)

is_lowercase(c) == 97 <= c /\ c <= 122
is_uppercase(c) == 65 <= c /\ c <= 90

\* The first match of convert_case: what is added to c.
UpOffset(c, mode) ==
    IF mode \in {"ForceLower", "InvertedCase"} /\ is_uppercase(c)
    THEN CASE_OFFSET ELSE 0

DownOffset_OfResult(c, result, mode) ==
    IF mode \in {"ForceUpper", "InvertedCase"} /\ is_lowercase(result)
    THEN CASE_OFFSET ELSE 0
\* The second match of convert_case: what is subtracted from result; its
\* guard reads c, not result.
DownOffset(c, result, mode) ==
    IF mode \in {"ForceUpper", "InvertedCase"} /\ is_lowercase(c)
    THEN CASE_OFFSET ELSE 0

\* convert_case step by step: sum and diff are the values of the u8
\* addition and subtraction before they are cut to 8 bits.
convert_steps(c, mode) ==
    LET sum == c + UpOffset(c, mode)
        r1 == sum % 256
        diff == r1 - DownOffset(c, r1, mode)
    IN  [c |-> c, mode |-> mode, sum |-> sum, diff |-> diff,
         result |-> diff % 256]

convert_case(c, mode) == convert_steps(c, mode).result

LedModeFrom_PeriodsSwapped(mode) ==
    CASE mode = "NormalCase" -> [kind |-> "Off", period |-> 0]
      [] mode = "ForceUpper" -> [kind |-> "On", period |-> 0]
      [] mode = "ForceLower" -> [kind |-> "Blink", period |-> STROBE_MS]
      [] mode = "InvertedCase" -> [kind |-> "Blink", period |-> BLINK_MS]
\* impl From<&TextMode> for LedMode
LedModeFrom(mode) ==
    CASE mode = "NormalCase" -> [kind |-> "Off", period |-> 0]
      [] mode = "ForceUpper" -> [kind |-> "On", period |-> 0]
      [] mode = "ForceLower" -> [kind |-> "Blink", period |-> BLINK_MS]
      [] mode = "InvertedCase" -> [kind |-> "Blink", period |-> STROBE_MS]

BlinkLevel_SecondHalfHigh(c, period) == (c \div period) % 2 = 1
\* LedMode::Blink arm of control_led: high while counter / period is even.
BlinkLevel(c, period) == (c \div period) % 2 = 0

\* LedMode::control_led: the level given to the LED pin.
control_led(led_mode, c) ==
    CASE led_mode.kind = "Off" -> FALSE
      [] led_mode.kind = "On" -> TRUE
      [] led_mode.kind = "Blink" -> BlinkLevel(c, led_mode.period)

flush_buffer_Raw(buf, idx, mode) == <<CR>> \o [i \in 1..idx |-> buf[i]]
\* flush_buffer: CR, then every buffered byte converted under text_mode.
flush_buffer(buf, idx, mode) ==
    <<CR>> \o [i \in 1..idx |-> convert_case(buf[i], mode)]

ModeMsg(mode) ==
    CASE mode = "NormalCase" -> MsgNormalCase
      [] mode = "ForceUpper" -> MsgForceUpper
      [] mode = "ForceLower" -> MsgForceLower
      [] mode = "InvertedCase" -> MsgInvertedCase

\* The byte that selects each mode (match arms '=', '+', '-', '~').
IsModeByte(r) == r \in {EqualsSign, PlusSign, MinusSign, Tilde}
ModeOfByte(r) ==
    CASE r = EqualsSign -> "NormalCase"
      [] r = PlusSign -> "ForceUpper"
      [] r = MinusSign -> "ForceLower"
      [] r = Tilde -> "InvertedCase"

SelectsNewMode_Always(target, mode) == TRUE
\* `if TextMode::X != text_mode` of the four mode arms.
SelectsNewMode(target, mode) == target # mode

HasRoom_OffByOne(idx) == idx <= BUFFER_SIZE
\* `if index < BUFFER_SIZE` of the Ok(c) arm.
HasRoom(idx) == idx < BUFFER_SIZE

Stored_Converted(c, mode) == convert_case(c, mode)
\* `buffer[index] = c`: the byte as received is what the buffer keeps.
Stored(c, mode) == c

FlushRequested_ByReturnOnly(do_flush, change) == do_flush
\* do_flush_buffer as tested by the flush: set by the carriage return, or
\* by `do_flush_buffer = true` at the end of the `if mode_change` block.
FlushRequested(do_flush, change) == do_flush \/ change

NonEmpty_Always(idx) == TRUE
\* `0 < index` of the flush and of the reset conditions.
NonEmpty(idx) == 0 < idx

IsOrdinary_AnyResult(r) ==
    r \notin {QuestionMark, EqualsSign, PlusSign, MinusSign, Tilde, CR}
\* The catch-all Ok(c) arm: a byte none of the earlier arms matched.
IsOrdinary(r) ==
    r >= 0 /\ r \notin {QuestionMark, EqualsSign, PlusSign, MinusSign, Tilde, CR}

ReadOutput_EchoDropped(r, idx, mode) ==
    CASE r = QuestionMark -> <<MsgEchoHelp>>
      [] IsOrdinary(r) -> <<convert_case(r, mode)>>
      [] OTHER -> <<>>
\* What the match on rx.read() writes to tx: the help text for '?', the
\* converted byte for a byte that is buffered, nothing otherwise.
ReadOutput(r, idx, mode) ==
    CASE r = QuestionMark -> <<MsgEchoHelp>>
      [] IsOrdinary(r) /\ HasRoom(idx) -> <<convert_case(r, mode)>>
      [] OTHER -> <<>>

ButtonEdge_Release(button_state, down) == ~button_state /\ down
ButtonEdge_Level(button_state, down) == button_state
\* `if button_state && !button_down`
ButtonEdge(button_state, down) == button_state /\ ~down

CycleMode_ThreeRing(mode) ==
    CASE mode = "NormalCase" -> "ForceUpper"
      [] mode = "ForceUpper" -> "ForceLower"
      [] mode = "ForceLower" -> "NormalCase"
      [] mode = "InvertedCase" -> "NormalCase"
\* The match of the button block: the next mode of the cycle.
CycleMode(mode) ==
    CASE mode = "NormalCase" -> "ForceUpper"
      [] mode = "ForceUpper" -> "ForceLower"
      [] mode = "ForceLower" -> "InvertedCase"
      [] mode = "InvertedCase" -> "NormalCase"

(* ---------------------------------------------------------------------- *)
(* Order of the blocks of each loop body                                   *)
(* ---------------------------------------------------------------------- *)

EchoOrder_ButtonBeforeRead ==
    <<"button", "read", "led", "flush", "reset", "delay">>
EchoOrder_AdvanceBeforeLed ==
    <<"read", "button", "delay", "led", "flush", "reset">>
\* serial_echo.rs, loop body, top to bottom.
EchoOrder == <<"read", "button", "led", "flush", "reset", "delay">>

\* serial_led_control.rs, loop body, top to bottom.
ControlOrder == <<"read", "advance", "button", "write">>

\* gpio_led.rs, loop body, top to bottom.
GpioOrder == <<"advance", "button", "write">>

Order(p) ==
    CASE p = "echo" -> EchoOrder
      [] p = "control" -> ControlOrder
      [] p = "gpio" -> GpioOrder

\* The block that follows block b: the next one of the body, the first one
\* when b is the last (the loop).
NextBlock(p, b) ==
    LET o == Order(p)
        i == CHOOSE k \in 1..Len(o) : o[k] = b
    IN  o[(i % Len(o)) + 1]

\* Block b starts a tick when it is the first of the body.
Begins(p, b) == Order(p)[1] = b
Logged(p, b) == IF Begins(p, b) THEN <<b>> ELSE Append(steps, b)

(* ---------------------------------------------------------------------- *)
(* Initial state: the locals as declared before each loop                  *)
(* ---------------------------------------------------------------------- *)

\* conv before convert_case is called.
NoCall ==
    [c |-> 0, mode |-> "NormalCase", sum |-> 0, diff |-> 0, result |-> 0]

InitOf(p) ==
    /\ prog = p
    /\ pc = Order(p)[1]
    /\ rx = NoRead
    /\ button = FALSE
    /\ counter = 0
    /\ buffer = [i \in 1..BUFFER_SIZE |-> 0]
    /\ index = 0
    /\ button_down = FALSE
    /\ text_mode = "NormalCase"
    /\ mode_change = FALSE
    /\ do_flush_buffer = FALSE
    /\ reset_buffer = FALSE
    /\ led = FALSE
    /\ static_enable = TRUE
    /\ blink_enable = TRUE
    /\ strobe_enable = TRUE
    /\ controlled_enable = TRUE
    /\ controlled_inversion = FALSE
    /\ strobe_on = FALSE
    /\ blink_on = FALSE
    /\ controlled_on = FALSE
    /\ leds_static = FALSE
    /\ leds_blink = FALSE
    /\ leds_strobe = FALSE
    /\ leds_controlled = FALSE
    /\ tx = <<>>
    /\ steps = <<>>
    /\ mode0 = "NormalCase"
    /\ edge = FALSE
    /\ fed = <<>>
    /\ wpos = 0 - 1
    /\ blink_run = 0
    /\ pure = TRUE
    /\ presses = 0
    /\ conv = NoCall

(* ---------------------------------------------------------------------- *)
(* serial_echo.rs: the loop                                                *)
(* ---------------------------------------------------------------------- *)

\* match rx.read() { ... }
EchoRead ==
    /\ prog = "echo" /\ pc = "read"
    /\ \E r \in EchoInputs :
        /\ rx' = r
        /\ mode0' = text_mode
        /\ IF IsModeByte(r) /\ SelectsNewMode(ModeOfByte(r), text_mode)
           THEN text_mode' = ModeOfByte(r) /\ mode_change' = TRUE
           ELSE UNCHANGED <<text_mode, mode_change>>
        /\ IF r = CR
           THEN do_flush_buffer' = TRUE /\ reset_buffer' = TRUE
           ELSE UNCHANGED <<do_flush_buffer, reset_buffer>>
        /\ IF IsOrdinary(r) /\ HasRoom(index)
           THEN /\ buffer' = [buffer EXCEPT ![index + 1] = Stored(r, text_mode)]
                /\ index' = index + 1
                /\ wpos' = index
           ELSE /\ UNCHANGED <<buffer, index>>
                /\ wpos' = 0 - 1
        /\ tx' = ReadOutput(r, index, text_mode)
        /\ fed' = IF IsOrdinary(r) /\ Len(fed) <= BUFFER_SIZE
                  THEN Append(fed, r) ELSE fed
        /\ pure' = (pure /\ ~IsModeByte(r))
        /\ presses' = IF pure /\ ~IsModeByte(r) THEN presses ELSE 0
    /\ steps' = Logged("echo", "read")
    /\ pc' = NextBlock("echo", "read")
    /\ UNCHANGED <<prog, conv, button, counter, button_down, led, enableVars,
                   waveVars, controlled_on, ledsVars, edge>>

\* let button_state = button.is_low(); ... button_down = button_state;
EchoButton ==
    /\ prog = "echo" /\ pc = "button"
    /\ \E button_state \in BOOLEAN :
        /\ button' = button_state
        /\ edge' = (button_state /\ ~button)
        /\ IF ButtonEdge(button_state, button_down)
           THEN text_mode' = CycleMode(text_mode) /\ mode_change' = TRUE
           ELSE UNCHANGED <<text_mode, mode_change>>
        /\ button_down' = button_state
        /\ presses' = IF pure /\ button_state /\ ~button
                      THEN (presses + 1) % 4 ELSE presses
    /\ steps' = Logged("echo", "button")
    /\ pc' = NextBlock("echo", "button")
    /\ UNCHANGED <<prog, pure, conv, rx, counter, buffer, index, do_flush_buffer,
                   reset_buffer, led, enableVars, waveVars, controlled_on,
                   ledsVars, tx, mode0, fed, wpos>>

\* let led_mode: LedMode = (&text_mode).into(); led_mode.control_led(..)
EchoLed ==
    /\ prog = "echo" /\ pc = "led"
    /\ led' = control_led(LedModeFrom(text_mode), counter)
    /\ steps' = Logged("echo", "led")
    /\ pc' = NextBlock("echo", "led")
    /\ UNCHANGED <<prog, pressVars, conv, rx, button, counter, buffer, index, button_down,
                   text_mode, mode_change, do_flush_buffer, reset_buffer,
                   enableVars, waveVars, controlled_on, ledsVars, tx, histVars>>

\* if mode_change { .. }  if do_flush_buffer && 0 < index { .. }
\* do_flush_buffer = false;
EchoFlush ==
    /\ prog = "echo" /\ pc = "flush"
    /\ LET notice == IF mode_change THEN <<ModeMsg(text_mode)>> ELSE <<>>
           do_flush == FlushRequested(do_flush_buffer, mode_change)
           line == IF do_flush /\ NonEmpty(index)
                   THEN flush_buffer(buffer, index, text_mode) ELSE <<>>
       IN  tx' = tx \o notice \o line
    /\ mode_change' = FALSE
    /\ do_flush_buffer' = FALSE
    /\ steps' = Logged("echo", "flush")
    /\ pc' = NextBlock("echo", "flush")
    /\ UNCHANGED <<prog, pressVars, conv, rx, button, counter, buffer, index, button_down,
                   text_mode, reset_buffer, led, enableVars, waveVars,
                   controlled_on, ledsVars, histVars>>

\* if reset_buffer && 0 < index { .. }  reset_buffer = false;
EchoReset ==
    /\ prog = "echo" /\ pc = "reset"
    /\ IF reset_buffer /\ NonEmpty(index)
       THEN index' = 0 /\ tx' = tx \o <<CR, LF>>
       ELSE UNCHANGED <<index, tx>>
    /\ reset_buffer' = FALSE
    /\ steps' = Logged("echo", "reset")
    /\ pc' = NextBlock("echo", "reset")
    /\ UNCHANGED <<prog, pressVars, conv, rx, button, counter, buffer, button_down, text_mode,
                   mode_change, do_flush_buffer, led, enableVars, waveVars,
                   controlled_on, ledsVars, histVars>>

\* delay.delay_ms(DELAY_MS); counter = (counter + DELAY_MS) % DELAY_COUNTER_MAX;
EchoDelay ==
    /\ prog = "echo" /\ pc = "delay"
    /\ counter' = (counter + DELAY_MS) % DELAY_COUNTER_MAX
    /\ fed' = IF rx = CR THEN <<>> ELSE fed
    /\ steps' = Logged("echo", "delay")
    /\ pc' = NextBlock("echo", "delay")
    /\ UNCHANGED <<prog, pressVars, conv, rx, button, echoVars, enableVars, waveVars,
                   controlled_on, ledsVars, tx, mode0, edge, wpos>>

EchoNext ==
    \/ EchoRead
    \/ EchoButton
    \/ EchoLed
    \/ EchoFlush
    \/ EchoReset
    \/ EchoDelay

InitEcho == InitOf("echo")
SpecEcho == InitEcho /\ [][EchoNext]_vars

(* ---------------------------------------------------------------------- *)
(* serial_led_control.rs and gpio_led.rs: shared arithmetic                *)
(* ---------------------------------------------------------------------- *)

\* counter = counter + STROBE_MS; if 2 * BLINK_MS < counter { counter = 0; }
AdvanceCounter(c) ==
    LET c1 == c + STROBE_MS
    IN  IF 2 * BLINK_MS < c1 THEN 0 ELSE c1

NextStrobe_FromCounter(s, c) == (c \div STROBE_MS) % 2 = 1
\* strobe_on = !strobe_on;  (c is the counter just advanced: not used)
NextStrobe(s, c) == ~s

\* blink_on = BLINK_MS <= counter;
BlinkOn(c) == BLINK_MS <= c

ButtonState_NoInversion(is_low, inversion) == is_low
\* let button_state = button.is_low() != controlled_inversion;
ButtonState(is_low, inversion) == is_low # inversion

ControlledLevel_Uniform(enable, on, inversion) == enable /\ on
\* if !controlled_inversion { enable && on } else { !enable || on }
ControlledLevel(enable, on, inversion) ==
    IF ~inversion THEN enable /\ on ELSE ~enable \/ on

AnyEnabled_Always(s, b, t, c) == TRUE
\* `if static_enable || blink_enable || strobe_enable || controlled_enable`
AnyEnabled(s, b, t, c) == s \/ b \/ t \/ c

\* `if !static_enable || !blink_enable || !strobe_enable || !controlled_enable`
AnyDisabled(s, b, t, c) == ~s \/ ~b \/ ~t \/ ~c

ToggleMsg_OldState(now, msg_enabled, msg_disabled) ==
    IF now THEN msg_disabled ELSE msg_enabled
\* The notification of a toggle arm names the state just set.
ToggleMsg(now, msg_enabled, msg_disabled) ==
    IF now THEN msg_enabled ELSE msg_disabled

(* ---------------------------------------------------------------------- *)
(* serial_led_control.rs: the loop                                         *)
(* ---------------------------------------------------------------------- *)

\* match rx.read() { ... }
CtlRead ==
    /\ prog = "control" /\ pc = "read"
    /\ \E r \in ControlInputs :
        /\ rx' = r
        /\ CASE r = QuestionMark ->
                /\ tx' = <<MsgCtlHelp>>
                /\ UNCHANGED enableVars
             [] r = Digit0 ->
                IF AnyEnabled(static_enable, blink_enable, strobe_enable,
                              controlled_enable)
                THEN /\ static_enable' = FALSE
                     /\ blink_enable' = FALSE
                     /\ strobe_enable' = FALSE
                     /\ controlled_enable' = FALSE
                     /\ tx' = <<MsgAllDisabled>>
                     /\ UNCHANGED controlled_inversion
                ELSE tx' = <<>> /\ UNCHANGED enableVars
             [] r = Digit1 ->
                IF AnyDisabled(static_enable, blink_enable, strobe_enable,
                               controlled_enable)
                THEN /\ static_enable' = TRUE
                     /\ blink_enable' = TRUE
                     /\ strobe_enable' = TRUE
                     /\ controlled_enable' = TRUE
                     /\ tx' = <<MsgAllEnabled>>
                     /\ UNCHANGED controlled_inversion
                ELSE tx' = <<>> /\ UNCHANGED enableVars
             [] r = Digit2 ->
                /\ static_enable' = ~static_enable
                /\ tx' = <<ToggleMsg(~static_enable, MsgStaticEnabled, MsgStaticDisabled)>>
                /\ UNCHANGED <<blink_enable, strobe_enable, controlled_enable,
                               controlled_inversion>>
             [] r = Digit3 ->
                /\ blink_enable' = ~blink_enable
                /\ tx' = <<ToggleMsg(~blink_enable, MsgBlinkEnabled, MsgBlinkDisabled)>>
                /\ UNCHANGED <<static_enable, strobe_enable, controlled_enable,
                               controlled_inversion>>
             [] r = Digit4 ->
                /\ strobe_enable' = ~strobe_enable
                /\ tx' = <<ToggleMsg(~strobe_enable, MsgStrobeEnabled, MsgStrobeDisabled)>>
                /\ UNCHANGED <<static_enable, blink_enable, controlled_enable,
                               controlled_inversion>>
             [] r = Digit5 ->
                /\ controlled_enable' = ~controlled_enable
                /\ tx' = <<ToggleMsg(~controlled_enable, MsgControlledEnabled,
                                     MsgControlledDisabled)>>
                /\ UNCHANGED <<static_enable, blink_enable, strobe_enable,
                               controlled_inversion>>
             [] r = Digit9 ->
                /\ controlled_inversion' = ~controlled_inversion
                /\ tx' = <<ToggleMsg(~controlled_inversion, MsgInversionEnabled,
                                     MsgInversionDisabled)>>
                /\ UNCHANGED <<static_enable, blink_enable, strobe_enable,
                               controlled_enable>>
             [] OTHER ->
                tx' = <<>> /\ UNCHANGED enableVars
    /\ steps' = Logged("control", "read")
    /\ pc' = NextBlock("control", "read")
    /\ UNCHANGED <<prog, pressVars, conv, button, counter, echoVars, waveVars, controlled_on,
                   ledsVars, histVars>>

\* delay.delay_ms(STROBE_MS); counter ..; strobe_on = ..; blink_on = ..;
CtlAdvance ==
    /\ prog = "control" /\ pc = "advance"
    /\ counter' = AdvanceCounter(counter)
    /\ strobe_on' = NextStrobe(strobe_on, counter')
    /\ blink_on' = BlinkOn(counter')
    /\ blink_run' = IF blink_on' = blink_on THEN blink_run + 1 ELSE 1
    /\ steps' = Logged("control", "advance")
    /\ pc' = NextBlock("control", "advance")
    /\ UNCHANGED <<prog, pressVars, conv, rx, button, echoVars, enableVars, controlled_on,
                   ledsVars, tx, histVars>>

\* let button_state = ..; if button_state { .. } else { .. }
CtlButton ==
    /\ prog = "control" /\ pc = "button"
    /\ \E is_low \in BOOLEAN :
        LET button_state == ButtonState(is_low, controlled_inversion)
        IN  /\ button' = is_low
            /\ edge' = (is_low /\ ~button)
            /\ tx' = tx \o
                  (IF controlled_enable /\ controlled_on # button_state
                   THEN <<ToggleMsg(button_state, MsgControlledOn, MsgControlledOff)>>
                   ELSE <<>>)
            /\ controlled_on' = button_state
    /\ steps' = Logged("control", "button")
    /\ pc' = NextBlock("control", "button")
    /\ UNCHANGED <<prog, pressVars, conv, rx, counter, echoVars, enableVars, waveVars,
                   ledsVars, mode0, fed, wpos>>

\* the four set_leds calls
CtlWrite ==
    /\ prog = "control" /\ pc = "write"
    /\ leds_static' = (static_enable /\ TRUE)
    /\ leds_blink' = (blink_enable /\ blink_on)
    /\ leds_strobe' = (strobe_enable /\ strobe_on)
    /\ leds_controlled' =
          ControlledLevel(controlled_enable, controlled_on, controlled_inversion)
    /\ steps' = Logged("control", "write")
    /\ pc' = NextBlock("control", "write")
    /\ UNCHANGED <<prog, pressVars, conv, rx, button, counter, echoVars, enableVars, waveVars,
                   controlled_on, tx, histVars>>

ControlNext ==
    \/ CtlRead
    \/ CtlAdvance
    \/ CtlButton
    \/ CtlWrite

InitControl == InitOf("control")
SpecControl == InitControl /\ [][ControlNext]_vars

(* ---------------------------------------------------------------------- *)
(* gpio_led.rs: the loop                                                   *)
(* ---------------------------------------------------------------------- *)

\* delay.delay_ms(STROBE_MS); counter ..; strobe_on = ..; blink_on = ..;
GpioAdvance ==
    /\ prog = "gpio" /\ pc = "advance"
    /\ counter' = AdvanceCounter(counter)
    /\ strobe_on' = NextStrobe(strobe_on, counter')
    /\ blink_on' = BlinkOn(counter')
    /\ blink_run' = IF blink_on' = blink_on THEN blink_run + 1 ELSE 1
    /\ steps' = Logged("gpio", "advance")
    /\ pc' = NextBlock("gpio", "advance")
    /\ UNCHANGED <<prog, pressVars, conv, rx, button, echoVars, enableVars, controlled_on,
                   ledsVars, tx, histVars>>

\* if button.is_low() { .. controlled_on = true; } else { .. = false; }
GpioButton ==
    /\ prog = "gpio" /\ pc = "button"
    /\ \E is_low \in BOOLEAN :
        /\ button' = is_low
        /\ edge' = (is_low /\ ~button)
        /\ controlled_on' = is_low
    /\ steps' = Logged("gpio", "button")
    /\ pc' = NextBlock("gpio", "button")
    /\ UNCHANGED <<prog, pressVars, conv, rx, counter, echoVars, enableVars, waveVars,
                   ledsVars, tx, mode0, fed, wpos>>

\* the four set_leds calls
GpioWrite ==
    /\ prog = "gpio" /\ pc = "write"
    /\ leds_static' = TRUE
    /\ leds_blink' = blink_on
    /\ leds_strobe' = strobe_on
    /\ leds_controlled' = controlled_on
    /\ steps' = Logged("gpio", "write")
    /\ pc' = NextBlock("gpio", "write")
    /\ UNCHANGED <<prog, pressVars, conv, rx, button, counter, echoVars, enableVars, waveVars,
                   controlled_on, tx, histVars>>

GpioNext ==
    \/ GpioAdvance
    \/ GpioButton
    \/ GpioWrite

InitGpio == InitOf("gpio")
SpecGpio == InitGpio /\ [][GpioNext]_vars

(* ---------------------------------------------------------------------- *)
(* convert_case on its own: any byte, any mode                             *)
(* ---------------------------------------------------------------------- *)

Bytes == 0..255
TextModes == {"NormalCase", "ForceUpper", "ForceLower", "InvertedCase"}

\* The call convert_case(c, &text_mode) with c = rx.
Convert ==
    /\ prog = "convert" /\ pc = "call"
    /\ conv' = convert_steps(rx, text_mode)
    /\ pc' = "return"
    /\ UNCHANGED <<prog, rx, button, counter, echoVars, enableVars, waveVars,
                   controlled_on, ledsVars, tx, steps, histVars, pressVars>>

InitConvert ==
    \E c \in Bytes, m \in TextModes :
        /\ prog = "convert"
        /\ pc = "call"
        /\ rx = c
        /\ button = FALSE
        /\ counter = 0
        /\ buffer = [i \in 1..BUFFER_SIZE |-> 0]
        /\ index = 0
        /\ button_down = FALSE
        /\ text_mode = m
        /\ mode_change = FALSE
        /\ do_flush_buffer = FALSE
        /\ reset_buffer = FALSE
        /\ led = FALSE
        /\ static_enable = TRUE
        /\ blink_enable = TRUE
        /\ strobe_enable = TRUE
        /\ controlled_enable = TRUE
        /\ controlled_inversion = FALSE
        /\ strobe_on = FALSE
        /\ blink_on = FALSE
        /\ controlled_on = FALSE
        /\ leds_static = FALSE
        /\ leds_blink = FALSE
        /\ leds_strobe = FALSE
        /\ leds_controlled = FALSE
        /\ tx = <<>>
        /\ steps = <<>>
        /\ mode0 = m
        /\ edge = FALSE
        /\ fed = <<>>
        /\ wpos = 0 - 1
        /\ blink_run = 0
        /\ pure = TRUE
        /\ presses = 0
        /\ conv = NoCall

ConvertNext == Convert

SpecConvert == InitConvert /\ [][ConvertNext]_vars

(* ---------------------------------------------------------------------- *)
(* The three programs together: one of them runs                           *)
(* ---------------------------------------------------------------------- *)

Init == \E p \in {"echo", "control", "gpio"} : InitOf(p)

Next ==
    \/ EchoRead
    \/ EchoButton
    \/ EchoLed
    \/ EchoFlush
    \/ EchoReset
    \/ EchoDelay
    \/ CtlRead
    \/ CtlAdvance
    \/ CtlButton
    \/ CtlWrite
    \/ GpioAdvance
    \/ GpioButton
    \/ GpioWrite

Spec == Init /\ [][Next]_vars

(* ---------------------------------------------------------------------- *)
(* Vocabulary of the properties                                            *)
(* ---------------------------------------------------------------------- *)

\* Block b has run in the current tick.
Ran(b) == \E i \in 1..Len(steps) : steps[i] = b
\* Every block of the body has run: the state between two ticks.
TickDone == Len(steps) = Len(Order(prog))
\* Position of block b among the blocks run in this tick (0: not run).
Pos(b) == IF Ran(b) THEN CHOOSE i \in 1..Len(steps) : steps[i] = b ELSE 0

Xor(a, b) == a # b

\* The mode each selecting byte stands for, as the protocol table lists it.
Selected(r) ==
    IF r = 61 THEN "NormalCase"
    ELSE IF r = 43 THEN "ForceUpper"
    ELSE IF r = 45 THEN "ForceLower"
    ELSE "InvertedCase"

\* The cycle Normal -> ForceUpper -> ForceLower -> InvertedCase -> Normal.
Successor(m) ==
    IF m = "NormalCase" THEN "ForceUpper"
    ELSE IF m = "ForceUpper" THEN "ForceLower"
    ELSE IF m = "ForceLower" THEN "InvertedCase"
    ELSE "NormalCase"

ModeNotices == {MsgNormalCase, MsgForceUpper, MsgForceLower, MsgInvertedCase}
NoticeEmitted == \E i \in 1..Len(tx) : tx[i] \in ModeNotices

\* The mode after this tick's serial block, from the mode at the start of
\* the tick and the byte received.
AfterSerial ==
    IF rx \in {61, 43, 45, 126} THEN Selected(rx) ELSE mode0

(* ---------------------------------------------------------------------- *)
(* C1                                                                      *)
(* ---------------------------------------------------------------------- *)

\* C1: control variant: after the outputs of a tick are written, the
\* Controlled channel holds enabled AND (pressed XOR inversion) when the
\* inversion flag is off and (NOT enabled) OR (pressed XOR inversion) when
\* it is on; with inversion on and the channel disabled it is driven on
\* whatever the button.
C1_ControlledTruthTable ==
    (prog = "control" /\ TickDone) =>
        LET on == Xor(button, controlled_inversion)
        IN  /\ ~controlled_inversion => (leds_controlled = (controlled_enable /\ on))
            /\ controlled_inversion => (leds_controlled = (~controlled_enable \/ on))
            /\ (controlled_inversion /\ ~controlled_enable) => leds_controlled

\* Inversion on, channel disabled, button pressed: the channel is on.
C1_Witness ==
    /\ prog = "control" /\ TickDone
    /\ controlled_inversion /\ ~controlled_enable /\ button
    /\ leds_controlled

(* ---------------------------------------------------------------------- *)
(* C2                                                                      *)
(* ---------------------------------------------------------------------- *)

\* C2: echo variant: a tick that receives '=', '+', '-' or '~' and has no
\* button edge ends in the mode the byte selects, and it emits a mode
\* notification exactly when the mode at the start of the tick was another
\* one.
C2_ModeByteSelects ==
    (prog = "echo" /\ TickDone /\ rx \in {61, 43, 45, 126} /\ ~edge) =>
        /\ text_mode = Selected(rx)
        /\ NoticeEmitted <=> (mode0 # Selected(rx))

\* The byte of the mode already active: nothing changes, nothing is sent.
C2_Witness ==
    /\ prog = "echo" /\ TickDone /\ ~edge
    /\ rx = 43 /\ mode0 = "ForceUpper" /\ text_mode = "ForceUpper"
    /\ tx = <<>>

(* ---------------------------------------------------------------------- *)
(* C3                                                                      *)
(* ---------------------------------------------------------------------- *)

\* C3: echo variant: once the button block of a tick has run, the mode is
\* the successor (in the cycle) of the mode left by the serial block when
\* this tick's sample is pressed and the previous tick's sample was not,
\* and it is the mode left by the serial block otherwise (button held,
\* released or up).
C3_ButtonEdgeAdvances ==
    (prog = "echo" /\ Ran("button")) =>
        text_mode = IF edge THEN Successor(AfterSerial) ELSE AfterSerial

\* The button is held over a second tick: the mode does not move again.
C3_Witness ==
    /\ prog = "echo" /\ TickDone
    /\ button /\ ~edge /\ rx = WouldBlock
    /\ mode0 = "ForceUpper" /\ text_mode = "ForceUpper"

(* ---------------------------------------------------------------------- *)
(* C4                                                                      *)
(* ---------------------------------------------------------------------- *)

\* The block of each program that advances the waveform counter, and the
\* one that writes the output pins.
WaveBlock == IF prog = "echo" THEN "delay" ELSE "advance"
OutputBlock == IF prog = "echo" THEN "led" ELSE "write"

IsPrefix(a, b) == Len(a) <= Len(b) /\ \A i \in 1..Len(a) : a[i] = b[i]

\* C4 as stated: in every tick of the echo variant and of the control
\* variant the serial block runs before the button block, the button block
\* before the counter advances, and the counter advances before the
\* outputs are written.
C4_Original ==
    (prog \in {"echo", "control"} /\ TickDone) =>
        /\ Pos("read") < Pos("button")
        /\ Pos("button") < Pos(WaveBlock)
        /\ Pos(WaveBlock) < Pos(OutputBlock)

\* C4 amended: the echo variant runs serial, button, LED write, mode
\* notification and flush, reset, and only then the delay and the counter
\* (so the LED level written in a tick comes from the counter before that
\* tick's advance); the control variant runs serial, delay and counter
\* advance, button, output write (so the button is processed after the
\* counter advances and the outputs come from the advanced counter).
C4_Amended ==
    /\ prog = "echo" =>
        /\ IsPrefix(steps, <<"read", "button", "led", "flush", "reset", "delay">>)
        /\ (TickDone /\ text_mode = "InvertedCase") =>
              (led = ((((counter + 1000 - 50) % 1000) \div 50) % 2 = 0))
    /\ prog = "control" =>
        /\ IsPrefix(steps, <<"read", "advance", "button", "write">>)
        /\ (TickDone /\ blink_enable) => (leds_blink = (500 <= counter))

\* A finished echo tick in InvertedCase whose LED is high although the
\* counter, advanced since, is in an odd 50 ms slot.
C4_Witness ==
    /\ prog = "echo" /\ TickDone
    /\ text_mode = "InvertedCase" /\ led /\ counter = 50

(* ---------------------------------------------------------------------- *)
(* C5                                                                      *)
(* ---------------------------------------------------------------------- *)

\* C5 as stated: in every reachable state of the three programs the
\* waveform counter is at least 0 and less than 2 * BLINK_MS.
C5_Original == 0 <= counter /\ counter < 2 * 500

(* ---------------------------------------------------------------------- *)
(* C6                                                                      *)
(* ---------------------------------------------------------------------- *)

\* C6 as stated: in the control variant and gpio_led the blink signal
\* keeps each level for 10 consecutive ticks (500 ms of 50 ms ticks), never
\* for more.
C6_Original ==
    prog \in {"control", "gpio"} => blink_run <= 500 \div 50

(* ---------------------------------------------------------------------- *)
(* C7                                                                      *)
(* ---------------------------------------------------------------------- *)

\* C7 as stated: every blink output written is low while the counter it
\* is computed from is below BLINK_MS and high from BLINK_MS on: the LED of
\* the echo variant in ForceLower, the Blink channel of the control variant
\* (while enabled) and of gpio_led.
C7_Original ==
    /\ (prog = "echo" /\ Ran("led") /\ ~Ran("delay") /\ text_mode = "ForceLower")
          => (led = (counter >= 500))
    /\ (prog = "control" /\ TickDone /\ blink_enable)
          => (leds_blink = (counter >= 500))
    /\ (prog = "gpio" /\ TickDone) => (leds_blink = (counter >= 500))

\* C7 amended: the Blink channel of the control variant (while enabled)
\* and of gpio_led is written low while the counter is below BLINK_MS and
\* high from BLINK_MS on, and low while disabled; the LED of the echo
\* variant in ForceLower has the opposite phase: high while the counter it
\* is computed from is in [0, BLINK_MS), low in [BLINK_MS, 2 * BLINK_MS).
C7_Amended ==
    /\ (prog = "echo" /\ Ran("led") /\ ~Ran("delay") /\ text_mode = "ForceLower")
          => (led = (counter < 500))
    /\ (prog = "control" /\ TickDone)
          => (leds_blink = (blink_enable /\ counter >= 500))
    /\ (prog = "gpio" /\ TickDone) => (leds_blink = (counter >= 500))

\* The echo LED written high in ForceLower in the first half of the period.
C7_Witness ==
    /\ prog = "echo" /\ Ran("led") /\ ~Ran("delay")
    /\ text_mode = "ForceLower" /\ counter = 450 /\ led

(* ---------------------------------------------------------------------- *)
(* C8                                                                      *)
(* ---------------------------------------------------------------------- *)

\* C8: control variant and gpio_led: the block that advances the counter
\* negates strobe_on, whatever the counter, the byte received, the button
\* or the flags, and no other block changes it: strobe_on of one tick is
\* the negation of strobe_on of the tick before.
C8_StrobeFlips ==
    [][(prog \in {"control", "gpio"}) =>
          (strobe_on' = (IF pc = "advance" THEN ~strobe_on ELSE strobe_on))]_vars

\* The tick in which the counter wraps to 0: strobe_on has flipped to TRUE.
C8_Witness ==
    /\ prog = "control" /\ Ran("advance")
    /\ counter = 0 /\ strobe_on

(* ---------------------------------------------------------------------- *)
(* C9                                                                      *)
(* ---------------------------------------------------------------------- *)

\* C9: echo variant: the write index stays within 0 .. BUFFER_SIZE, and
\* the buffer is only written at positions below BUFFER_SIZE.
C9_IndexInRange ==
    prog = "echo" =>
        /\ 0 <= index /\ index <= BUFFER_SIZE
        /\ wpos < BUFFER_SIZE

\* The last free position has just been written.
C9_Witness ==
    /\ prog = "echo" /\ steps = <<"read">>
    /\ wpos = BUFFER_SIZE - 1 /\ index = BUFFER_SIZE

(* ---------------------------------------------------------------------- *)
(* C10                                                                     *)
(* ---------------------------------------------------------------------- *)

\* The conversion table of the four modes.
Table(c, m) ==
    IF m \in {"ForceUpper", "InvertedCase"} /\ c \in 97..122 THEN c - 32
    ELSE IF m \in {"ForceLower", "InvertedCase"} /\ c \in 65..90 THEN c + 32
    ELSE c

\* C10: echo variant: an ordinary byte that arrives after BUFFER_SIZE
\* ordinary bytes of the same line is dropped by the serial block: the
\* index stays BUFFER_SIZE, the buffer still holds the first BUFFER_SIZE
\* bytes of the line, nothing is written to the buffer or to the serial
\* port; and the flush of the carriage return that follows emits CR and
\* those first BUFFER_SIZE bytes converted, nothing of the later ones.
C10_DropAtCapacity ==
    prog = "echo" =>
        /\ (steps = <<"read">> /\ IsOrdinary(rx) /\ Len(fed) = BUFFER_SIZE + 1) =>
              /\ index = BUFFER_SIZE
              /\ \A i \in 1..BUFFER_SIZE : buffer[i] = fed[i]
              /\ wpos = 0 - 1
              /\ tx = <<>>
        /\ (Ran("flush") /\ ~Ran("reset") /\ rx = 13 /\ Len(fed) = BUFFER_SIZE + 1) =>
              /\ index = BUFFER_SIZE
              /\ tx = (IF edge THEN <<ModeMsg(text_mode)>> ELSE <<>>)
                       \o <<13>>
                       \o [i \in 1..BUFFER_SIZE |-> Table(fed[i], text_mode)]

\* BUFFER_SIZE + 1 ordinary bytes, the last one an 'a' after capitals,
\* then a carriage return: the flush has run and holds no 'a'.
C10_Witness ==
    /\ prog = "echo" /\ Ran("flush") /\ ~Ran("reset")
    /\ rx = 13 /\ Len(fed) = BUFFER_SIZE + 1
    /\ fed[BUFFER_SIZE + 1] = 97
    /\ \A i \in 1..BUFFER_SIZE : fed[i] = 90
    /\ text_mode = "NormalCase"
    /\ index = BUFFER_SIZE
    /\ \A i \in 1..Len(tx) : tx[i] # 97

(* ---------------------------------------------------------------------- *)
(* C11                                                                     *)
(* ---------------------------------------------------------------------- *)

\* A byte that is neither a command nor a carriage return.
OrdinaryByte(r) == r \in 0..255 /\ r \notin {63, 61, 43, 45, 126, 13}
\* The serial output of the tick is complete: the reset block has run and
\* the delay has not yet closed the tick.
OutputDone == Ran("reset") /\ ~Ran("delay")
\* The tick has changed the mode neither by a byte nor by the button.
ModeHeld == ~edge /\ rx \notin {61, 43, 45, 126} /\ text_mode = mode0

\* C11: echo variant, in ticks that leave the mode M alone: the tick that
\* receives the k-th ordinary byte of a line of at most BUFFER_SIZE bytes
\* writes convert(b_k, M) and nothing else; a tick without a byte writes
\* nothing; the tick that receives the carriage return after n >= 1 such
\* bytes writes CR, convert(b_1, M) .. convert(b_n, M), CR, LF, and leaves
\* index = 0.
C11_LineEchoedThenFlushed ==
    (prog = "echo" /\ OutputDone /\ ModeHeld) =>
        /\ (OrdinaryByte(rx) /\ Len(fed) <= BUFFER_SIZE) =>
              /\ tx = <<Table(rx, text_mode)>>
              /\ index = Len(fed)
        /\ (rx < 0) => tx = <<>>
        /\ (rx = 13 /\ 1 <= Len(fed) /\ Len(fed) <= BUFFER_SIZE) =>
              /\ tx = <<13>> \o [i \in 1..Len(fed) |-> Table(fed[i], text_mode)]
                       \o <<13, 10>>
              /\ index = 0

\* Scenario B: 'a' and a second byte under ForceUpper, then the carriage
\* return: the line comes back in capitals.
C11_Witness ==
    /\ prog = "echo" /\ OutputDone /\ ModeHeld
    /\ rx = 13 /\ Len(fed) = 2 /\ fed[1] = 97
    /\ text_mode = "ForceUpper"
    /\ tx[2] = 65 /\ tx[Len(tx)] = 10
    /\ index = 0

(* ---------------------------------------------------------------------- *)
(* C12                                                                     *)
(* ---------------------------------------------------------------------- *)

\* The tick flushes: a carriage return or a change of mode, with a
\* non-empty buffer.
Flushes ==
    /\ 0 < index
    /\ \/ rx = 13
       \/ edge
       \/ rx \in {61, 43, 45, 126} /\ Selected(rx) # mode0
\* The last n entries of sequence q.
LastN(q, n) == SubSeq(q, Len(q) - n + 1, Len(q))

\* C12: echo variant: the buffer holds the bytes of the line as received,
\* whatever the mode under which each arrived; and once the flush block of
\* a flushing tick has run, the output ends with CR and convert(b, M2) of
\* every buffered original byte b, M2 being the mode left by the serial
\* and button blocks of that same tick.
C12_FlushUsesModeAtFlush ==
    prog = "echo" =>
        /\ \A i \in 1..index : buffer[i] = fed[i]
        /\ (Ran("flush") /\ ~Ran("reset") /\ Flushes) =>
              /\ text_mode = (IF edge THEN Successor(AfterSerial) ELSE AfterSerial)
              /\ Len(tx) >= index + 1
              /\ LastN(tx, index + 1) =
                    <<13>> \o [i \in 1..index |-> Table(fed[i], text_mode)]

\* An 'a' arrives under InvertedCase and is echoed as 'A'; the button edge
\* of the same tick moves the mode on to NormalCase, and the flush that
\* follows emits the 'a' itself.
C12_Witness ==
    /\ prog = "echo" /\ Ran("flush") /\ ~Ran("reset")
    /\ mode0 = "InvertedCase" /\ rx = 97 /\ edge
    /\ text_mode = "NormalCase"
    /\ fed = <<97>> /\ index = 1
    /\ tx = <<65, MsgNormalCase, 13, 97>>

(* ---------------------------------------------------------------------- *)
(* C13                                                                     *)
(* ---------------------------------------------------------------------- *)

\* Number of bytes of the current line that the buffer holds.
Held == IF Len(fed) <= BUFFER_SIZE THEN Len(fed) ELSE BUFFER_SIZE
\* What flush then reset write for the line held, after the notification
\* of a mode changed by the button in the same tick.
FlushThenReset ==
    (IF edge THEN <<ModeMsg(text_mode)>> ELSE <<>>)
    \o <<13>> \o [i \in 1..Held |-> Table(fed[i], text_mode)]
    \o <<13, 10>>

\* C13 as stated: every tick that receives a carriage return, whatever
\* the number of bytes held, the empty buffer included, writes CR, the
\* held bytes converted, then CR LF, and leaves index = 0.
C13_Original ==
    (prog = "echo" /\ OutputDone /\ rx = 13) =>
        /\ tx = FlushThenReset
        /\ index = 0

\* C13: echo variant: a tick that receives a carriage return while the
\* buffer holds 1 to BUFFER_SIZE bytes writes CR, the held bytes
\* converted, then CR LF, and leaves index = 0; with an empty buffer it
\* writes neither the CR nor the CR LF, only the notification of a mode
\* changed by the button, and index stays 0.
C13_Amended ==
    (prog = "echo" /\ OutputDone /\ rx = 13) =>
        /\ index = 0
        /\ (1 <= Held) => tx = FlushThenReset
        /\ (Held = 0) => tx = (IF edge THEN <<ModeMsg(text_mode)>> ELSE <<>>)

\* A carriage return on an empty line, after an earlier line was ended:
\* the tick has written nothing.
C13_Witness ==
    /\ prog = "echo" /\ OutputDone /\ rx = 13
    /\ fed = <<>> /\ ~edge
    /\ buffer[1] = 97
    /\ tx = <<>> /\ index = 0

(* ---------------------------------------------------------------------- *)
(* C14                                                                     *)
(* ---------------------------------------------------------------------- *)

\* The four enable flags and the inversion flag, in the order of the
\* bytes '2', '3', '4', '5', '9'.
Flags ==
    <<static_enable, blink_enable, strobe_enable, controlled_enable,
      controlled_inversion>>
\* A step of the serial block of the control variant that receives r.
SerialStepOf(r) == prog = "control" /\ pc = "read" /\ rx' = r

\* C14: control variant: the serial step of a '0' leaves all four enable
\* flags false and that of a '1' leaves all four true; it writes "All LEDs
\* disabled." / "All LEDs enabled." exactly when one of the four flags
\* differed from the target before the step, and nothing otherwise; the
\* inversion flag keeps its value.
C14_AllOffAllOn ==
    [][\A r \in {48, 49} :
          SerialStepOf(r) =>
             LET target == (r = 49)
                 changes == \E k \in 1..4 : Flags[k] # target
             IN  /\ \A k \in 1..4 : Flags'[k] = target
                 /\ Flags'[5] = Flags[5]
                 /\ tx' = IF changes
                          THEN <<IF target THEN 312 ELSE 311>>
                          ELSE <<>>]_vars

\* A '0' received when all four channels were already disabled while the
\* inversion flag is on: nothing was written, the inversion is still on.
C14_Witness ==
    /\ prog = "control" /\ steps = <<"read">> /\ rx = 48
    /\ ~static_enable /\ ~blink_enable /\ ~strobe_enable /\ ~controlled_enable
    /\ controlled_inversion
    /\ tx = <<>>

(* ---------------------------------------------------------------------- *)
(* C15                                                                     *)
(* ---------------------------------------------------------------------- *)

\* The flag each toggle byte stands for, as a position in Flags.
FlagOf(r) ==
    IF r = 50 THEN 1 ELSE IF r = 51 THEN 2 ELSE IF r = 52 THEN 3
    ELSE IF r = 53 THEN 4 ELSE 5
\* The notifications of each flag: <<enabled, disabled>>.
FlagNotices ==
    <<(<<313, 314>>), (<<315, 316>>), (<<317, 318>>), (<<319, 320>>),
      (<<321, 322>>)>>

\* C15: control variant: the serial step of '2', '3', '4', '5', '9'
\* negates the flag of Static, Blink, Strobe, Controlled, inversion
\* respectively, leaves the four other flags as they were and writes the
\* one notification that names the new state of that flag; no block other
\* than the serial one changes a flag, so that two such bytes in a row
\* restore the flags.
C15_ToggleNegatesOne ==
    [][(prog = "control") =>
          /\ \A r \in {50, 51, 52, 53, 57} :
                SerialStepOf(r) =>
                   /\ Flags' = [Flags EXCEPT ![FlagOf(r)] = ~Flags[FlagOf(r)]]
                   /\ tx' = <<FlagNotices[FlagOf(r)]
                                 [IF Flags'[FlagOf(r)] THEN 1 ELSE 2]>>
          /\ (pc # "read") => (Flags' = Flags)]_vars

\* Scenario C, second '2': Static is enabled again, "Static enabled." was
\* written, while Blink was disabled before and still is.
C15_Witness ==
    /\ prog = "control" /\ steps = <<"read">> /\ rx = 50
    /\ static_enable /\ ~blink_enable /\ strobe_enable /\ controlled_enable
    /\ tx = <<313>>

(* ---------------------------------------------------------------------- *)
(* C16                                                                     *)
(* ---------------------------------------------------------------------- *)

\* C16: echo and control variants: a serial step whose read returns
\* WouldBlock or another error changes neither the mode, nor a flag, nor
\* the buffer, nor the index, nor any of the pending flush, reset and
\* notification requests, nor anything the later blocks of the tick read;
\* it writes nothing; and the loop goes on to its next block, the same
\* one for both kinds of error.
C16_ReadErrorIsNoByte ==
    [][(pc = "read" /\ rx' \in {WouldBlock, OtherError}) =>
          /\ text_mode' = text_mode
          /\ Flags' = Flags
          /\ buffer' = buffer /\ index' = index
          /\ mode_change' = mode_change
          /\ do_flush_buffer' = do_flush_buffer
          /\ reset_buffer' = reset_buffer
          /\ button_down' = button_down /\ counter' = counter
          /\ strobe_on' = strobe_on /\ blink_on' = blink_on
          /\ controlled_on' = controlled_on
          /\ tx' = <<>>
          /\ pc' = (IF prog = "echo" THEN "button" ELSE "advance")]_vars

\* A tick of the echo variant whose read failed with an error other than
\* WouldBlock, run to its end with a byte waiting in the buffer under a
\* mode other than the initial one: nothing was written.
C16_Witness ==
    /\ prog = "echo" /\ TickDone /\ rx = OtherError
    /\ index = 1 /\ text_mode = "ForceLower" /\ ~edge
    /\ tx = <<>>

(* ---------------------------------------------------------------------- *)
(* C17                                                                     *)
(* ---------------------------------------------------------------------- *)

\* C17: control variant: the serial step of any byte other than '?',
\* '0', '1', '2', '3', '4', '5', '9' -- the carriage return and '=', '+',
\* '-', '~' among them -- changes no enable flag, leaves the inversion
\* flag alone and writes nothing.
C17_OtherBytesIgnored ==
    [][\A r \in (0..255) \ {63, 48, 49, 50, 51, 52, 53, 57} :
          SerialStepOf(r) => (Flags' = Flags /\ tx' = <<>>)]_vars

\* An '=' received by the control variant while Static is disabled and
\* the inversion is on: both are as they were, nothing was written.
C17_Witness ==
    /\ prog = "control" /\ steps = <<"read">> /\ rx = 61
    /\ ~static_enable /\ blink_enable /\ controlled_inversion
    /\ tx = <<>>

(* ---------------------------------------------------------------------- *)
(* C18                                                                     *)
(* ---------------------------------------------------------------------- *)

\* C18: echo variant: as long as no mode-selecting byte has been
\* received since the start, the mode is NormalCase exactly when the
\* number of button press edges so far is a multiple of 4, whatever the
\* ticks without an edge in between.
C18_FourPressesCycle ==
    (prog = "echo" /\ pure) => ((text_mode = "NormalCase") <=> (presses = 0))

\* The tick of a press edge that brings the count of edges to a multiple
\* of 4, no mode-selecting byte having been received: the mode is
\* NormalCase again and its notification is written.
C18_Witness ==
    /\ prog = "echo" /\ pure /\ TickDone
    /\ edge /\ presses = 0
    /\ text_mode = "NormalCase"
    /\ tx = <<MsgNormalCase>>

(* ---------------------------------------------------------------------- *)
(* C19                                                                     *)
(* ---------------------------------------------------------------------- *)

\* The tick, as far as it has run, has met neither a mode-selecting byte
\* nor a press edge.
NoModeEvent ==
    /\ Ran("read") /\ rx \notin {61, 43, 45, 126}
    /\ Ran("button") => ~edge

\* C19: echo variant: before the first tick the mode is NormalCase; and
\* at every point of a tick that has met neither a mode-selecting byte
\* nor a press edge -- no byte, a read error, '?', a carriage return, an
\* ordinary byte buffered or dropped, the button held or released -- the
\* mode is the one the tick started with and no mode notification has
\* been written.
C19_ModeChangesOnlyByEvent ==
    prog = "echo" =>
        /\ (steps = <<>>) => text_mode = "NormalCase"
        /\ NoModeEvent => (text_mode = mode0 /\ ~NoticeEmitted)

\* A whole tick under ForceUpper with the button held down since an
\* earlier tick and an ordinary byte dropped at capacity: the mode is
\* still ForceUpper and nothing was written.
C19_Witness ==
    /\ prog = "echo" /\ TickDone /\ NoModeEvent
    /\ rx = 97 /\ Len(fed) = BUFFER_SIZE + 1
    /\ button /\ ~edge
    /\ mode0 = "ForceUpper" /\ text_mode = "ForceUpper"
    /\ tx = <<>>

(* ---------------------------------------------------------------------- *)
(* C20                                                                     *)
(* ---------------------------------------------------------------------- *)

\* C20: for each of the 256 bytes c and each of the four modes,
\* convert_case returns c under NormalCase, c - 32 for 'a'..'z' under
\* ForceUpper and InvertedCase, c + 32 for 'A'..'Z' under ForceLower and
\* InvertedCase, and c in every other case, a byte that is not a letter
\* in particular; and neither the addition nor the subtraction leaves the
\* range 0..255 of a u8.
C20_ConvertCaseTable ==
    (prog = "convert" /\ pc = "return") =>
        /\ conv.result = Table(conv.c, conv.mode)
        /\ (conv.mode = "NormalCase") => conv.result = conv.c
        /\ (conv.c \notin (65..90) \cup (97..122)) => conv.result = conv.c
        /\ conv.sum \in 0..255
        /\ conv.diff \in 0..255

\* 'Z' under InvertedCase came back as 'z': 32 was added, nothing taken
\* away.
C20_Witness ==
    /\ prog = "convert" /\ pc = "return"
    /\ conv.c = 90 /\ conv.mode = "InvertedCase"
    /\ conv.sum = 122 /\ conv.diff = 122 /\ conv.result = 122

(* ---------------------------------------------------------------------- *)
(* C21                                                                     *)
(* ---------------------------------------------------------------------- *)

\* C21: echo variant: the LED block of every tick drives the LED from the
\* mode left by the serial and button blocks of that tick: low under
\* NormalCase, high under ForceUpper; under ForceLower, the previous tick
\* having ended in ForceLower too, the level changes exactly when the
\* elapsed time reaches a multiple of 500 ms; under InvertedCase, the
\* previous tick having ended in InvertedCase too, the level changes at
\* every tick, the one where the counter wraps included; the counter
\* itself moves by the 50 ms of one tick, modulo 1000, in the delay block
\* and nowhere else.
C21_LedFollowsMode ==
    [][(prog = "echo") =>
          /\ (pc = "led") =>
                /\ text_mode' = text_mode
                /\ text_mode = (IF edge THEN Successor(AfterSerial) ELSE AfterSerial)
                /\ (text_mode = "NormalCase") => (led' = FALSE)
                /\ (text_mode = "ForceUpper") => (led' = TRUE)
                /\ (text_mode = "ForceLower" /\ mode0 = "ForceLower") =>
                      ((led' # led) <=> (counter % 500 = 0))
                /\ (text_mode = "InvertedCase" /\ mode0 = "InvertedCase") =>
                      (led' # led)
          /\ (pc # "led") => (led' = led)
          /\ counter' = (IF pc = "delay" THEN (counter + 50) % 1000 ELSE counter)]_vars

\* Two ticks in a row under InvertedCase, the second one with the counter
\* back at 0 after the wrap: the LED, low in the tick before, is high.
C21_Witness ==
    /\ prog = "echo" /\ Ran("led") /\ ~Ran("delay")
    /\ mode0 = "InvertedCase" /\ text_mode = "InvertedCase"
    /\ counter = 0
    /\ led

(* ---------------------------------------------------------------------- *)
(* C22                                                                     *)
(* ---------------------------------------------------------------------- *)

\* The tick has changed the mode: a byte selected a mode other than the
\* one it started with, or the button met a press edge.
ModeChanged ==
    \/ edge
    \/ rx \in {61, 43, 45, 126} /\ Selected(rx) # mode0
\* What the serial block itself wrote before the notification: the help
\* text for '?', the echo of a byte it buffered, nothing otherwise.
SerialOutput ==
    IF rx = 63 THEN <<MsgEchoHelp>>
    ELSE IF OrdinaryByte(rx) /\ Len(fed) <= BUFFER_SIZE
         THEN <<Table(rx, mode0)>>
    ELSE <<>>

\* C22: echo variant: in a tick that changes the mode and receives no
\* carriage return, the output of the serial block is followed by the
\* notification of the new mode and then, if the buffer holds bytes, by CR
\* and every held byte converted under the new mode, and by nothing else;
\* the buffer still holds the bytes of the line and the index their
\* number; with an empty buffer the notification is the last thing
\* written.
C22_ModeChangeReemitsLine ==
    (prog = "echo" /\ OutputDone /\ ModeChanged /\ rx # 13) =>
        /\ index = Held
        /\ \A i \in 1..Held : buffer[i] = fed[i]
        /\ (1 <= Held) =>
              tx = SerialOutput \o <<ModeMsg(text_mode)>> \o <<13>>
                   \o [i \in 1..Held |-> Table(fed[i], text_mode)]
        /\ (Held = 0) => tx = SerialOutput \o <<ModeMsg(text_mode)>>

\* A '+' received under NormalCase while the buffer holds an 'a': the
\* tick wrote the notification of ForceUpper, CR and 'A', and the 'a' is
\* still buffered.
C22_Witness ==
    /\ prog = "echo" /\ OutputDone /\ rx = 43 /\ ~edge
    /\ mode0 = "NormalCase" /\ text_mode = "ForceUpper"
    /\ fed = <<97>> /\ index = 1 /\ buffer[1] = 97
    /\ tx = <<MsgForceUpper, 13, 65>>

(* ---------------------------------------------------------------------- *)
(* C23                                                                     *)
(* ---------------------------------------------------------------------- *)

\* The notification that names each mode.
NoticeOf(m) ==
    IF m = "NormalCase" THEN 301
    ELSE IF m = "ForceUpper" THEN 302
    ELSE IF m = "ForceLower" THEN 303
    ELSE 304
\* The places of the tick's output that hold a mode notification.
NoticePlaces == {i \in 1..Len(tx) : tx[i] \in {301, 302, 303, 304}}

\* C23: echo variant, at the end of every tick: if the tick received a
\* mode-selecting byte and met a press edge, the mode is the successor in
\* the cycle of the mode the byte selects; the output holds at most one
\* mode notification, and that one names the mode the tick ended in; and
\* a tick with a press edge has written one, also when it ended in the
\* mode it started with.
C23_CommandThenButton ==
    (prog = "echo" /\ TickDone) =>
        /\ (rx \in {61, 43, 45, 126} /\ edge) =>
              text_mode = Successor(Selected(rx))
        /\ Cardinality(NoticePlaces) <= 1
        /\ \A i \in NoticePlaces : tx[i] = NoticeOf(text_mode)
        /\ edge => NoticePlaces # {}

\* A '-' received under InvertedCase in the tick of a press edge: the
\* byte selects ForceLower, the button moves on to InvertedCase, the mode
\* the tick started with, and "Use inverted case." is written once.
C23_Witness ==
    /\ prog = "echo" /\ TickDone
    /\ mode0 = "InvertedCase" /\ rx = 45 /\ edge
    /\ text_mode = "InvertedCase"
    /\ tx = <<304>>

(* ---------------------------------------------------------------------- *)
(* C24                                                                     *)
(* ---------------------------------------------------------------------- *)

\* The places of the tick's output that hold "Controlled LED on." or
\* "Controlled LED off.".
OnOffPlaces == {i \in 1..Len(tx) : tx[i] \in {323, 324}}

\* C24: control variant: the button block of every tick sets
\* controlled_on to (pressed XOR inversion), the Controlled channel
\* enabled or not; it appends "Controlled LED on." / "Controlled LED
\* off.", naming the new value, exactly when the new value differs from
\* the one the previous tick left and controlled_enable holds at that
\* moment, and appends nothing otherwise, so that a change made while the
\* channel is disabled is not reported then nor later; a '9' received in
\* a tick whose button level is the one of the tick before, the channel
\* enabled, is followed by such a notification in the same tick; no other
\* block changes controlled_on or writes these notifications.
C24_ControlledOnReported ==
    [][(prog = "control") =>
          /\ (pc = "button") =>
                /\ controlled_on' = Xor(button', controlled_inversion)
                /\ tx' = tx \o
                      (IF controlled_enable /\ controlled_on' # controlled_on
                       THEN <<IF controlled_on' THEN 323 ELSE 324>>
                       ELSE <<>>)
                /\ (rx = 57 /\ button' = button /\ controlled_enable) =>
                      (OnOffPlaces' # {})
          /\ (pc # "button") => (controlled_on' = controlled_on)
          /\ (pc = "read") => (OnOffPlaces' = {})
          /\ (pc \notin {"read", "button"}) => (tx' = tx)]_vars

\* A '9' turns the inversion on while the button stays up and the channel
\* is enabled: the tick wrote "Inversion enabled." and then "Controlled
\* LED on.".
C24_Witness ==
    /\ prog = "control" /\ Ran("button") /\ rx = 57
    /\ controlled_enable /\ controlled_inversion
    /\ ~button /\ ~edge
    /\ controlled_on
    /\ tx = <<321, 323>>

====
